---- MODULE Spec2Model ----
(***************************************************************************)
(* Model of tools/analyze_escrow_json.py, the multisig instrumentation     *)
(* log analyzer: a session is a list of event dictionaries loaded from a   *)
(* JSON file; analyze_timeline, analyze_rpc_calls, analyze_snapshots and   *)
(* analyze_errors each make one pass over a session, compare_escrows makes *)
(* one pass over two sessions.                                             *)
(*                                                                         *)
(* Representation.  A dictionary key that may be missing is an optional    *)
(* value: None (the empty tuple) when the key is absent, Some(v) when it   *)
(* is present.  d.get(k) is the optional itself and d.get(k, default) is   *)
(* Get(opt, default).  Text that the code slices or searches is a tuple of *)
(* pieces: an address hash is a tuple of characters, an event type is the  *)
(* tuple of its words (RPC_CALL_END is <<"RPC", "CALL", "END">>), so that  *)
(* [:16] and the `in` substring test are computed, not assumed.            *)
(***************************************************************************)
EXTENDS Integers, Sequences, FiniteSets, TLC

VARIABLES events, events2, timeline, rpc_stats, snapshot_report, error_report, comparison,
          runs

vars ==
  <<events, events2, timeline, rpc_stats, snapshot_report, error_report, comparison, runs>>

----------------------------------------------------------------------------
(* Optional values and text helpers *)

None == <<>>

Some(v) == <<v>>

Get(opt, default) == IF opt = None THEN default ELSE opt[1]

Min2(a, b) == IF a <= b THEN a ELSE b

\* s[:n]
Prefix(s, n) == SubSeq(s, 1, Min2(n, Len(s)))

\* pat in s, on tuples of pieces
Contains(s, pat) ==
  \E i \in 1..(Len(s) - Len(pat) + 1) : SubSeq(s, i, i + Len(pat) - 1) = pat

Rep(c, n) == [i \in 1..n |-> c]

RECURSIVE SeqSum(_)
SeqSum(s) == IF s = <<>> THEN 0 ELSE s[1] + SeqSum(Tail(s))

RECURSIVE SeqMax(_)
SeqMax(s) == IF Len(s) = 1 THEN s[1]
             ELSE LET m == SeqMax(Tail(s)) IN IF s[1] >= m THEN s[1] ELSE m

RECURSIVE SeqMin(_)
SeqMin(s) == IF Len(s) = 1 THEN s[1]
             ELSE LET m == SeqMin(Tail(s)) IN IF s[1] <= m THEN s[1] ELSE m

RECURSIVE Concat(_)
Concat(ss) == IF ss = <<>> THEN <<>> ELSE ss[1] \o Concat(Tail(ss))

----------------------------------------------------------------------------
(* Event types, roles, text constants *)

RPC_CALL_START == <<"RPC", "CALL", "START">>
RPC_CALL_END == <<"RPC", "CALL", "END">>
RPC_CALL_ERROR == <<"RPC", "CALL", "ERROR">>
SNAPSHOT_PRE == <<"SNAPSHOT", "PRE">>
SNAPSHOT_POST == <<"SNAPSHOT", "POST">>
ERROR_FINAL == <<"ERROR", "FINAL">>
CACHE_POLLUTION_DETECTED == <<"CACHE", "POLLUTION", "DETECTED">>
ESCROW_INIT == <<"ESCROW", "INIT">>

\* the default of details.get('address_hash', 'unknown')
Unknown == <<"u", "n", "k", "n", "o", "w", "n">>

\* address_hash is cut to this many characters for display
HashDisplayLen == 16

ShortHash == <<"a", "b", "c">>
LongHash == Rep("f", HashDisplayLen + 1)
OtherHash == <<"d", "e">>

\* Python's order on the role strings the model uses: sorted() of role keys
SortedRoles == <<"buyer", "vendor">>

\* Python's order on the method names the model uses
SortedMethods == <<"get_balance", "only_started", "transfer">>

NoDetails ==
  [method |-> None, duration_ms |-> None, success |-> None,
   is_multisig |-> None, address_hash |-> None, balance |-> None,
   collection_time_ms |-> None, error |-> None, context |-> None,
   reason |-> None]

\* one record of the JSON array.  The analyses read the key 'timestamp';
\* a key 'timestamp_ms' is carried like any other key they do not read.
Event(ts, type, role, port, d) ==
  [timestamp |-> ts, timestamp_ms |-> None, event_type |-> type, role |-> role,
   rpc_port |-> port, trace_id |-> Some("t1"), details |-> d]

SnapshotDetails(ms, hash) ==
  [NoDetails EXCEPT !.is_multisig = ms, !.address_hash = hash,
                    !.balance = Some(<<10, 4>>)]

RpcDetails(method, duration, success) ==
  [NoDetails EXCEPT !.method = method, !.duration_ms = duration, !.success = success]

----------------------------------------------------------------------------
(* Results *)

NotRun == "not_run"

\* A report holds what the analysis printed: its items, the one-line notice
\* of an early return ("" when there was none) and how the call ended.
NoSnapshotReport ==
  [status |-> NotRun, lineage |-> <<>>, anomalies |-> <<>>, notice |-> ""]

\* warnings: what analyze_timeline hands to its caller besides the lines
NoTimeline == [status |-> NotRun, lines |-> <<>>, notice |-> "", warnings |-> {}]

NoRpcStats == [status |-> NotRun, methods |-> <<>>, notice |-> ""]

NoErrorReport == [status |-> NotRun, records |-> <<>>, notice |-> ""]

\* how many times the caller has run each analysis on the loaded session
NoRuns == [timeline |-> 0, rpc_calls |-> 0, snapshots |-> 0, errors |-> 0, compare |-> 0]

NoComparison ==
  [status |-> NotRun, len1 |-> 0, len2 |-> 0, rows |-> <<>>,
   divergence |-> None, verdict |-> NotRun]

----------------------------------------------------------------------------
(* analyze_snapshots *)

IsSnapshot(e) == Contains(e.event_type, <<"SNAPSHOT">>)

\* line 175: prev_snap.get('is_multisig') != is_multisig
MultisigChanged(prev, cur) ==
  prev.is_multisig # Some(Get(cur.is_multisig, FALSE))

\* line 163: details.get('address_hash', 'unknown')[:16]
DisplayedHash(d) == Prefix(Get(d.address_hash, Unknown), HashDisplayLen)

\* line 177: prev_snap.get('address_hash') != address_hash
AddressChanged(prev, cur) ==
  prev.address_hash # Some(DisplayedHash(cur))

\* lines 146-150: the snapshots of one role key, in session order
RoleSnaps(snapshots, role) ==
  LET HasRole(e) == e.role = role IN SelectSeq(snapshots, HasRole)

\* The checks of lines 173-178 without the guard `if i > 0`: role_snaps[i-1]
\* is then role_snaps[-1], the role's last snapshot, for the first one
SnapAnomalies_NoGuard(role, role_snaps, i) ==
  LET prev == role_snaps[IF i > 0 THEN i ELSE Len(role_snaps)].details
      cur == role_snaps[i + 1].details
  IN (IF MultisigChanged(prev, cur)
      THEN <<[role |-> role, index |-> i, kind |-> "MULTISIG STATE CHANGED"]>>
      ELSE <<>>)
     \o
     (IF AddressChanged(prev, cur)
      THEN <<[role |-> role, index |-> i, kind |-> "ADDRESS CHANGED"]>>
      ELSE <<>>)

\* lines 172-178 for the snapshot at 0-based position i of a role's list
SnapAnomalies(role, role_snaps, i) ==
  IF i > 0
  THEN LET prev == role_snaps[i].details
           cur == role_snaps[i + 1].details
       IN (IF MultisigChanged(prev, cur)
           THEN <<[role |-> role, index |-> i, kind |-> "MULTISIG STATE CHANGED"]>>
           ELSE <<>>)
          \o
          (IF AddressChanged(prev, cur)
           THEN <<[role |-> role, index |-> i, kind |-> "ADDRESS CHANGED"]>>
           ELSE <<>>)
  ELSE <<>>

\* lines 157-178 for one role
RoleAnomalies(role, role_snaps) ==
  Concat([p \in 1..Len(role_snaps) |-> SnapAnomalies(role, role_snaps, p - 1)])

\* lines 134-180.  sorted() of the role keys raises TypeError when None is
\* one of several keys; with None the only key, role.upper() raises
\* AttributeError before anything of that role is shown.
AnalyzeSnapshotsResult(evs) ==
  LET snapshots == SelectSeq(evs, IsSnapshot)
      keys == {snapshots[i].role : i \in 1..Len(snapshots)}
      roles == LET Present(r) == Some(r) \in keys IN SelectSeq(SortedRoles, Present)
  IN IF snapshots = <<>>
     THEN [status |-> "ok", lineage |-> <<>>, anomalies |-> <<>>,
           notice |-> "No snapshots recorded."]
     ELSE IF None \in keys
     THEN [status |-> IF Cardinality(keys) > 1 THEN "TypeError" ELSE "AttributeError",
           lineage |-> <<>>, anomalies |-> <<>>, notice |-> ""]
     ELSE [status |-> "ok", notice |-> "",
           lineage |-> [p \in 1..Len(roles) |->
                          [role |-> roles[p],
                           snaps |-> RoleSnaps(snapshots, Some(roles[p]))]],
           anomalies |-> Concat([p \in 1..Len(roles) |->
                          RoleAnomalies(roles[p], RoleSnaps(snapshots, Some(roles[p])))])]

AnalyzeSnapshots ==
  /\ snapshot_report.status = NotRun
  /\ snapshot_report' = AnalyzeSnapshotsResult(events)
  /\ runs' = [runs EXCEPT !.snapshots = 1]
  /\ UNCHANGED <<events, events2, timeline, rpc_stats, error_report, comparison>>

----------------------------------------------------------------------------
(* Sessions of snapshot events *)

MaxSnapLen == 3

SnapshotUniverse ==
  {Event(Some(1000), SNAPSHOT_PRE, Some("buyer"), None, SnapshotDetails(ms, h)) :
     ms \in {None, Some(TRUE), Some(FALSE)}, h \in {None, Some(ShortHash), Some(LongHash)}}
  \cup
  {Event(Some(1000), SNAPSHOT_POST, Some("vendor"), None, SnapshotDetails(Some(ms), Some(h))) :
     ms \in {TRUE, FALSE}, h \in {ShortHash, OtherHash}}
  \cup
  {Event(Some(1000), SNAPSHOT_POST, None, None, SnapshotDetails(Some(TRUE), Some(ShortHash))),
   Event(Some(1000), ESCROW_INIT, Some("buyer"), None, NoDetails)}

SessionsOver(universe, maxlen) == UNION {[1..n -> universe] : n \in 0..maxlen}

InitSnapshots ==
  /\ events \in SessionsOver(SnapshotUniverse, MaxSnapLen)
  /\ events2 = <<>>
  /\ timeline = NoTimeline
  /\ rpc_stats = NoRpcStats
  /\ snapshot_report = NoSnapshotReport
  /\ error_report = NoErrorReport
  /\ comparison = NoComparison
  /\ runs = NoRuns

NextSnapshots == AnalyzeSnapshots

SpecSnapshots == InitSnapshots /\ [][NextSnapshots]_vars

----------------------------------------------------------------------------
(* analyze_timeline *)

\* start_ts taken from the last event instead of the first
StartTs_FromLast(evs) == evs[Len(evs)].timestamp

\* line 44: start_ts = events[0]['timestamp']
StartTs(evs) == evs[1].timestamp

\* The subtraction of line 48 with its operands exchanged
RelativeMs_Reversed(ts, start_ts) == start_ts - ts

\* line 48
RelativeMs(ts, start_ts) == ts - start_ts

\* line 54: event_type in ['RPC_CALL_START', 'RPC_CALL_END', 'RPC_CALL_ERROR']
IsRpcType(t) == t \in {RPC_CALL_START, RPC_CALL_END, RPC_CALL_ERROR}

\* lines 49-76: what the line of one event shows after its offset
TimelineShown(e) ==
  LET d == e.details IN
  IF IsRpcType(e.event_type)
  THEN IF e.event_type = RPC_CALL_END
       THEN [port |-> Get(e.rpc_port, "?"), method |-> Get(d.method, "unknown"),
             mark |-> IF Get(d.success, FALSE) THEN "ok" ELSE "failed",
             duration |-> Get(d.duration_ms, "?")]
       ELSE [port |-> Get(e.rpc_port, "?"), method |-> Get(d.method, "unknown")]
  ELSE IF IsSnapshot(e)
  THEN [multisig |-> Get(d.is_multisig, FALSE),
        balance |-> Get(d.balance, <<0, 0>>)[1],
        addr |-> Prefix(Get(d.address_hash, Unknown), HashDisplayLen)]
  ELSE IF e.event_type = ERROR_FINAL
  THEN [error |-> Get(d.error, "unknown")]
  ELSE [other |-> TRUE]

TimelineLine(e, start_ts) ==
  [relative_ms |-> RelativeMs(e.timestamp[1], start_ts),
   event_type |-> e.event_type,
   role |-> Get(e.role, "?"),
   shown |-> TimelineShown(e)]

\* lines 46-76: one line per event, until an event without 'timestamp'
\* raises KeyError at line 47
RECURSIVE TimelineLines(_, _)
TimelineLines(evs, start_ts) ==
  IF evs = <<>> \/ evs[1].timestamp = None THEN <<>>
  ELSE <<TimelineLine(evs[1], start_ts)>> \o TimelineLines(Tail(evs), start_ts)

\* lines 40-42: an empty session prints a notice and returns
EmptyTimeline ==
  [status |-> "ok", lines |-> <<>>, notice |-> "No events found.", warnings |-> {}]

\* lines 34-78.  The function returns None and raises no warning: negative
\* offsets are printed like the others.
AnalyzeTimelineResult(evs) ==
  IF evs = <<>> THEN EmptyTimeline
  ELSE IF StartTs(evs) = None
  THEN [status |-> "KeyError", lines |-> <<>>, notice |-> "", warnings |-> {}]
  ELSE LET lines == TimelineLines(evs, StartTs(evs)[1])
       IN [status |-> IF Len(lines) = Len(evs) THEN "ok" ELSE "KeyError",
           lines |-> lines, notice |-> "", warnings |-> {}]

AnalyzeTimeline ==
  /\ timeline.status = NotRun
  /\ timeline' = AnalyzeTimelineResult(events)
  /\ runs' = [runs EXCEPT !.timeline = 1]
  /\ UNCHANGED <<events, events2, rpc_stats, snapshot_report, error_report, comparison>>

----------------------------------------------------------------------------
(* Sessions for the timeline *)

MaxTimelineLen == 3

TimelineUniverse ==
  {Event(ts, RPC_CALL_END, Some("buyer"), Some(18082),
         RpcDetails(Some("get_balance"), Some(120), Some(TRUE))) :
     ts \in {None, Some(993), Some(1000), Some(1007)}}
  \cup
  {Event(Some(ts), t, Some("vendor"), None, NoDetails) :
     ts \in {993, 1000}, t \in {RPC_CALL_START, ERROR_FINAL, ESCROW_INIT}}
  \cup
  {Event(Some(ts), SNAPSHOT_PRE, None, None, SnapshotDetails(Some(TRUE), Some(LongHash))) :
     ts \in {1000, 1007}}
  \cup
  {[Event(None, ESCROW_INIT, Some("buyer"), None, NoDetails)
      EXCEPT !.timestamp_ms = Some(1000)]}

InitTimeline ==
  /\ events \in SessionsOver(TimelineUniverse, MaxTimelineLen)
  /\ events2 = <<>>
  /\ timeline = NoTimeline
  /\ rpc_stats = NoRpcStats
  /\ snapshot_report = NoSnapshotReport
  /\ error_report = NoErrorReport
  /\ comparison = NoComparison
  /\ runs = NoRuns

NextTimeline == AnalyzeTimeline

SpecTimeline == InitTimeline /\ [][NextTimeline]_vars

----------------------------------------------------------------------------
(* analyze_rpc_calls *)

\* line 87: 'RPC_CALL' in e['event_type']
IsRpcCall(e) == Contains(e.event_type, <<"RPC", "CALL">>)

\* `if method`: None and the empty string are falsy
Truthy(method) == method # None /\ method # Some("")

\* A wider test that lets every RPC event with a method and a duration in
Contributes_AnyRpcEvent(call) ==
  /\ Truthy(call.details.method)
  /\ call.details.duration_ms # None

\* The test of line 101 written `if method and duration`: a duration of 0
\* is falsy and the call is left out
Contributes_TruthyDuration(call) ==
  /\ call.event_type = RPC_CALL_END
  /\ Truthy(call.details.method)
  /\ call.details.duration_ms # None
  /\ call.details.duration_ms # Some(0)

\* A test that takes RPC_CALL_ERROR events in beside RPC_CALL_END
Contributes_EndOrError(call) ==
  /\ call.event_type \in {RPC_CALL_END, RPC_CALL_ERROR}
  /\ Truthy(call.details.method)
  /\ call.details.duration_ms # None

\* lines 96-101: the events that are appended to by_method
Contributes(call) ==
  /\ call.event_type = RPC_CALL_END
  /\ Truthy(call.details.method)
  /\ call.details.duration_ms # None

\* lines 102-107
CallRecord(call) ==
  [duration |-> call.details.duration_ms[1],
   success |-> Get(call.details.success, FALSE),
   role |-> call.role,
   port |-> call.rpc_port]

\* lines 93-107: by_method[method], in session order
MethodCalls(rpc_calls, method) ==
  LET ForMethod(c) == Contributes(c) /\ c.details.method = Some(method)
      ended == SelectSeq(rpc_calls, ForMethod)
  IN [n \in 1..Len(ended) |-> CallRecord(ended[n])]

\* line 110 (and 125 for one role)
Durations(calls) == [n \in 1..Len(calls) |-> calls[n].duration]

\* line 111
Successes(calls) == LET Ok(c) == c.success IN Len(SelectSeq(calls, Ok))

\* line 114: sum(durations) / len(durations), kept as the exact fraction;
\* the report rounds it to a whole number of ms only when printing
Mean(durations) == [num |-> SeqSum(durations), den |-> Len(durations)]

\* avg printed with the format .0f: the nearest whole number, a tie going
\* to the even one
RoundHalfEven(num, den) ==
  LET q == num \div den
      r == num - q * den
  IN IF 2 * r < den THEN q
     ELSE IF 2 * r > den THEN q + 1
     ELSE IF q % 2 = 0 THEN q ELSE q + 1

ShownAvg(durations) == RoundHalfEven(Mean(durations).num, Mean(durations).den)

\* the first duration instead of the smallest
MinDuration_First(durations) == durations[1]

\* line 116
MinDuration(durations) == SeqMin(durations)

\* line 115
MaxDuration(durations) == SeqMax(durations)

\* Role lines that repeat the method's totals instead of the role's own calls
RoleBreakdown_MethodTotals(calls) ==
  LET keys == {calls[n].role : n \in 1..Len(calls)}
      Present(r) == Some(r) \in keys
      roles == SelectSeq(SortedRoles, Present)
  IN [p \in 1..Len(roles) |->
        [role |-> roles[p], count |-> Len(calls),
         avg |-> Mean(Durations(calls)), shown_avg |-> ShownAvg(Durations(calls))]]

\* lines 123-129: sorted(by_role.items()) and the role lines
RoleBreakdown(calls) ==
  LET keys == {calls[n].role : n \in 1..Len(calls)}
      Present(r) == Some(r) \in keys
      roles == SelectSeq(SortedRoles, Present)
  IN [p \in 1..Len(roles) |->
        LET OfRole(c) == c.role = Some(roles[p])
            role_durations == Durations(SelectSeq(calls, OfRole))
        IN [role |-> roles[p], count |-> Len(role_durations),
            avg |-> Mean(role_durations), shown_avg |-> ShownAvg(role_durations)]]

\* lines 123-129 raise TypeError when a call has no role: sorted() cannot
\* order None and a string, and a lone None fails in the format {role:7}
RoleBreakdownRaises(calls) == \E n \in 1..Len(calls) : calls[n].role = None

\* lines 110-129 for one method
MethodEntry(method, calls) ==
  [method |-> method,
   count |-> Len(calls),
   successes |-> Successes(calls),
   failures |-> Len(calls) - Successes(calls),
   avg |-> Mean(Durations(calls)),
   shown_avg |-> ShownAvg(Durations(calls)),
   min |-> MinDuration(Durations(calls)),
   max |-> MaxDuration(Durations(calls)),
   roles |-> IF RoleBreakdownRaises(calls) THEN <<>> ELSE RoleBreakdown(calls)]

\* lines 81-131.  The methods are reported in sorted order; the first one
\* whose role breakdown raises is the last one shown (its totals are printed
\* before the breakdown is attempted).
AnalyzeRpcCallsResult(evs) ==
  LET rpc_calls == SelectSeq(evs, IsRpcCall)
      Seen(m) == MethodCalls(rpc_calls, m) # <<>>
      methods == SelectSeq(SortedMethods, Seen)
      entries == [p \in 1..Len(methods) |->
                    MethodEntry(methods[p], MethodCalls(rpc_calls, methods[p]))]
      raising == {p \in 1..Len(methods) :
                    RoleBreakdownRaises(MethodCalls(rpc_calls, methods[p]))}
  IN IF rpc_calls = <<>>
     THEN [status |-> "ok", methods |-> <<>>, notice |-> "No RPC calls recorded."]
     ELSE IF raising = {}
     THEN [status |-> "ok", methods |-> entries, notice |-> ""]
     ELSE [status |-> "TypeError", notice |-> "",
           methods |-> SubSeq(entries, 1, CHOOSE p \in raising : \A q \in raising : p <= q)]

\* The filter of line 87 done in place on the caller's list
AnalyzeRpcCalls_FiltersInPlace ==
  /\ rpc_stats.status = NotRun
  /\ rpc_stats' = AnalyzeRpcCallsResult(events)
  /\ events' = SelectSeq(events, IsRpcCall)
  /\ runs' = [runs EXCEPT !.rpc_calls = 1]
  /\ UNCHANGED <<events2, timeline, snapshot_report, error_report, comparison>>

AnalyzeRpcCalls ==
  /\ rpc_stats.status = NotRun
  /\ rpc_stats' = AnalyzeRpcCallsResult(events)
  /\ runs' = [runs EXCEPT !.rpc_calls = 1]
  /\ UNCHANGED <<events, events2, timeline, snapshot_report, error_report, comparison>>

----------------------------------------------------------------------------
(* Sessions of RPC events *)

MaxRpcLen == 3

RpcUniverse ==
  {Event(Some(1000), RPC_CALL_END, Some("buyer"), Some(18082),
         RpcDetails(Some("get_balance"), Some(d), Some(ok))) :
     d \in {0, 5, 120}, ok \in {TRUE, FALSE}}
  \cup
  {Event(Some(1000), RPC_CALL_END, Some("vendor"), Some(18083),
         RpcDetails(Some("get_balance"), Some(120), None)),
   Event(Some(1000), RPC_CALL_END, None, None,
         RpcDetails(Some("get_balance"), Some(5), Some(TRUE))),
   Event(Some(1000), RPC_CALL_END, Some("buyer"), Some(18082),
         RpcDetails(Some("transfer"), Some(5), Some(TRUE))),
   Event(Some(1000), RPC_CALL_END, Some("buyer"), Some(18082),
         RpcDetails(None, Some(5), Some(TRUE))),
   Event(Some(1000), RPC_CALL_END, Some("buyer"), Some(18082),
         RpcDetails(Some(""), Some(5), Some(TRUE))),
   Event(Some(1000), RPC_CALL_END, Some("buyer"), Some(18082),
         RpcDetails(Some("get_balance"), None, Some(TRUE))),
   Event(Some(1000), RPC_CALL_START, Some("buyer"), Some(18082),
         RpcDetails(Some("get_balance"), None, None)),
   Event(Some(1000), RPC_CALL_START, Some("buyer"), Some(18082),
         RpcDetails(Some("only_started"), None, None)),
   Event(Some(1000), RPC_CALL_ERROR, Some("buyer"), Some(18082),
         RpcDetails(Some("only_started"), Some(5), None)),
   Event(Some(1000), ESCROW_INIT, Some("buyer"), None, NoDetails)}

InitRpc ==
  /\ events \in SessionsOver(RpcUniverse, MaxRpcLen)
  /\ events2 = <<>>
  /\ timeline = NoTimeline
  /\ rpc_stats = NoRpcStats
  /\ snapshot_report = NoSnapshotReport
  /\ error_report = NoErrorReport
  /\ comparison = NoComparison
  /\ runs = NoRuns

NextRpc == AnalyzeRpcCalls

SpecRpc == InitRpc /\ [][NextRpc]_vars

----------------------------------------------------------------------------
(* compare_escrows *)

\* Python's order on the event type names the model uses: sorted(all_types)
SortedTypes ==
  <<CACHE_POLLUTION_DETECTED, ERROR_FINAL, ESCROW_INIT, RPC_CALL_END,
    RPC_CALL_ERROR, RPC_CALL_START, SNAPSHOT_POST, SNAPSHOT_PRE>>

\* lines 231-237: types[e['event_type']] += 1, read back with .get(type, 0)
TypeCount(evs, t) ==
  LET OfType(e) == e.event_type = t IN Len(SelectSeq(evs, OfType))

\* The types of the first session alone
AllTypes_FirstOnly(evs1, evs2) ==
  {evs1[i].event_type : i \in 1..Len(evs1)}

\* line 239: set(types1.keys()) | set(types2.keys())
AllTypes(evs1, evs2) ==
  {evs1[i].event_type : i \in 1..Len(evs1)} \cup {evs2[i].event_type : i \in 1..Len(evs2)}

\* lines 246-250: one row of the distribution table
DistributionRow(evs1, evs2, t) ==
  LET count1 == TypeCount(evs1, t)
      count2 == TypeCount(evs2, t)
      diff == count2 - count1
  IN [event_type |-> t, count1 |-> count1, count2 |-> count2, diff |-> diff,
      diff_str |-> [plus |-> diff > 0, number |-> diff]]

\* lines 245-250
Distribution(evs1, evs2) ==
  LET InEither(t) == t \in AllTypes(evs1, evs2)
      types == SelectSeq(SortedTypes, InEither)
  IN [n \in 1..Len(types) |-> DistributionRow(evs1, evs2, types[n])]

\* line 257
MinLen(evs1, evs2) == Min2(Len(evs1), Len(evs2))

\* A test that looks at the role only when the first event has one
Differs_RoleOfFirstOnly(e1, e2) ==
  e1.event_type # e2.event_type \/ (e1.role # None /\ e1.role # e2.role)

\* A test that also compares the details payloads
Differs_WithDetails(e1, e2) ==
  e1.event_type # e2.event_type \/ e1.role # e2.role \/ e1.details # e2.details

\* line 264
Differs(e1, e2) == e1.event_type # e2.event_type \/ e1.role # e2.role

\* the 0-based indices i of range(min_len) at which line 264 holds
DifferingIndices(evs1, evs2) ==
  {i \in 0..(MinLen(evs1, evs2) - 1) : Differs(evs1[i + 1], evs2[i + 1])}

\* The last differing index instead of the first
FirstDivergence_Last(evs1, evs2) ==
  LET D == DifferingIndices(evs1, evs2)
  IN IF D = {} THEN None ELSE Some(CHOOSE i \in D : \A j \in D : j <= i)

\* lines 260-269: the loop stops at the first index that differs
FirstDivergence(evs1, evs2) ==
  LET D == DifferingIndices(evs1, evs2)
  IN IF D = {} THEN None ELSE Some(CHOOSE i \in D : \A j \in D : i <= j)

\* lines 265-267: what is printed for the divergence at index i
DivergenceReport(evs1, evs2, i) ==
  [index |-> i, event_number |-> i + 1,
   file1 |-> [event_type |-> evs1[i + 1].event_type, role |-> evs1[i + 1].role],
   file2 |-> [event_type |-> evs2[i + 1].event_type, role |-> evs2[i + 1].role]]

\* Sequences without a divergence always called identical
Verdict_AlwaysIdentical(diverged, len1, len2) ==
  IF diverged THEN "diverged" ELSE "identical"

\* lines 271-276
Verdict(diverged, len1, len2) ==
  IF diverged THEN "diverged"
  ELSE IF len1 # len2 THEN "length_mismatch"
  ELSE "identical"

\* lines 219-278
CompareEscrowsResult(evs1, evs2) ==
  LET first == FirstDivergence(evs1, evs2)
  IN [status |-> "ok",
      len1 |-> Len(evs1), len2 |-> Len(evs2),
      rows |-> Distribution(evs1, evs2),
      divergence |-> IF first = None THEN None
                     ELSE Some(DivergenceReport(evs1, evs2, first[1])),
      verdict |-> Verdict(first # None, Len(evs1), Len(evs2))]

CompareEscrows ==
  /\ comparison.status = NotRun
  /\ comparison' = CompareEscrowsResult(events, events2)
  /\ runs' = [runs EXCEPT !.compare = 1]
  /\ UNCHANGED <<events, events2, timeline, rpc_stats, snapshot_report, error_report>>

----------------------------------------------------------------------------
(* Pairs of sessions for the comparison *)

MaxCmpLen == 2

EndBuyer(duration) ==
  Event(Some(1000), RPC_CALL_END, Some("buyer"), Some(18082),
        RpcDetails(Some("get_balance"), Some(duration), Some(TRUE)))

ErrorBuyer ==
  Event(Some(1000), RPC_CALL_ERROR, Some("buyer"), Some(18082),
        RpcDetails(Some("get_balance"), None, None))

CompareUniverse ==
  {EndBuyer(5), EndBuyer(120), ErrorBuyer,
   Event(Some(1000), RPC_CALL_END, None, None,
         RpcDetails(Some("get_balance"), Some(5), Some(TRUE)))}

\* Scenario B of the specification: two sessions with the same first five
\* events, then RPC_CALL_END/buyer in one and RPC_CALL_ERROR/buyer in the other
ScenarioB ==
  {<<prefix \o <<tails[1]>>, prefix \o <<tails[2]>>>> :
     prefix \in [1..5 -> {EndBuyer(5), ErrorBuyer}],
     tails \in {<<EndBuyer(5), ErrorBuyer>>, <<ErrorBuyer, EndBuyer(5)>>}}

InitCompare ==
  /\ \/ /\ events \in SessionsOver(CompareUniverse, MaxCmpLen)
        /\ events2 \in SessionsOver(CompareUniverse, MaxCmpLen)
     \/ \E pair \in ScenarioB : events = pair[1] /\ events2 = pair[2]
  /\ timeline = NoTimeline
  /\ rpc_stats = NoRpcStats
  /\ snapshot_report = NoSnapshotReport
  /\ error_report = NoErrorReport
  /\ comparison = NoComparison
  /\ runs = NoRuns

NextCompare == CompareEscrows

SpecCompare == InitCompare /\ [][NextCompare]_vars

----------------------------------------------------------------------------
(* analyze_errors *)

MsPerDay == 86400000

\* line 31: datetime.fromtimestamp(ts_ms / 1000.0).strftime('%H:%M:%S.%f')[:-3],
\* the time of day with milliseconds; the date is not printed.  The local
\* zone is taken to be UTC.
format_timestamp(ts_ms) ==
  LET of_day == ts_ms % MsPerDay
  IN [hour |-> of_day \div 3600000,
      minute |-> (of_day \div 60000) % 60,
      second |-> (of_day \div 1000) % 60,
      millis |-> of_day % 1000]

\* A test on the word ERROR in the type instead of the list of line 189
IsErrorEvent_TypeNamesError(e) == Contains(e.event_type, <<"ERROR">>)

\* The filter of line 189 with a memory kept between runs: what a run has
\* reported is not reported again
IsErrorEvent_OncePerProcess(e) ==
  /\ e.event_type \in {ERROR_FINAL, RPC_CALL_ERROR, CACHE_POLLUTION_DETECTED}
  /\ runs.errors = 0

\* line 189
IsErrorEvent(e) ==
  e.event_type \in {ERROR_FINAL, RPC_CALL_ERROR, CACHE_POLLUTION_DETECTED}

\* json.dumps of the default context {}
EmptyContext == "{}"

\* The details looked up on the event itself, where the keys are never
\* found and every default is printed
ErrorDetail_FromEvent(err) ==
  [error |-> IF err.event_type = ERROR_FINAL THEN Some("unknown") ELSE None,
   context |-> IF err.event_type = ERROR_FINAL THEN Some(EmptyContext) ELSE None,
   method |-> IF err.event_type = RPC_CALL_ERROR THEN Some("unknown") ELSE None,
   reason |-> IF err.event_type = CACHE_POLLUTION_DETECTED THEN Some("unknown") ELSE None]

\* lines 200-214: the lines printed under the heading, by event type
ErrorDetail(err) ==
  [error |-> IF err.event_type = ERROR_FINAL
             THEN Some(Get(err.details.error, "unknown")) ELSE None,
   context |-> IF err.event_type = ERROR_FINAL
               THEN Some(Get(err.details.context, EmptyContext)) ELSE None,
   method |-> IF err.event_type = RPC_CALL_ERROR
              THEN Some(Get(err.details.method, "unknown")) ELSE None,
   reason |-> IF err.event_type = CACHE_POLLUTION_DETECTED
              THEN Some(Get(err.details.reason, "unknown")) ELSE None]

\* lines 196-214: what is printed for one error event
ErrorRecord(err) ==
  [time |-> format_timestamp(err.timestamp[1]),
   event_type |-> err.event_type,
   role |-> Get(err.role, "unknown"),
   detail |-> ErrorDetail(err)]

\* lines 195-214: one record per error, until an error without 'timestamp'
\* raises KeyError at line 196
RECURSIVE ErrorRecords(_)
ErrorRecords(errors) ==
  IF errors = <<>> \/ Head(errors).timestamp = None THEN <<>>
  ELSE <<ErrorRecord(Head(errors))>> \o ErrorRecords(Tail(errors))

\* An empty list of errors treated as a failure
NoErrorsFound_Raises ==
  [status |-> "ValueError", records |-> <<>>, notice |-> ""]

\* lines 191-193 (the notice is printed after a check mark)
NoErrorsFound ==
  [status |-> "ok", records |-> <<>>, notice |-> "No errors recorded."]

\* lines 183-216
AnalyzeErrorsResult(evs) ==
  LET errors == SelectSeq(evs, IsErrorEvent)
      records == ErrorRecords(errors)
  IN IF errors = <<>> THEN NoErrorsFound
     ELSE [status |-> IF Len(records) = Len(errors) THEN "ok" ELSE "KeyError",
           records |-> records, notice |-> ""]

\* The role looked up with setdefault instead of get at line 198: the
\* default is written into the event
AnalyzeErrors_SetsDefaultRole ==
  /\ error_report.status = NotRun
  /\ error_report' = AnalyzeErrorsResult(events)
  /\ events' = [i \in 1..Len(events) |->
                  IF IsErrorEvent(events[i]) /\ events[i].role = None
                  THEN [events[i] EXCEPT !.role = Some("unknown")]
                  ELSE events[i]]
  /\ runs' = [runs EXCEPT !.errors = 1]
  /\ UNCHANGED <<events2, timeline, rpc_stats, snapshot_report, comparison>>

AnalyzeErrors ==
  /\ error_report.status = NotRun
  /\ error_report' = AnalyzeErrorsResult(events)
  /\ runs' = [runs EXCEPT !.errors = 1]
  /\ UNCHANGED <<events, events2, timeline, rpc_stats, snapshot_report, comparison>>

----------------------------------------------------------------------------
(* Sessions of error events *)

MaxErrLen == 3

ErrorDetails(error, context, method, reason) ==
  [NoDetails EXCEPT !.error = error, !.context = context,
                    !.method = method, !.reason = reason]

\* 1000 and 86401000 are the same time of day on consecutive days
ErrorUniverse ==
  {Event(Some(1000), ERROR_FINAL, Some("buyer"), None,
         ErrorDetails(Some("timeout"), Some("{escrow}"), None, None)),
   Event(Some(3723004), ERROR_FINAL, None, None, NoDetails),
   Event(Some(86401000), RPC_CALL_ERROR, Some("vendor"), Some(18083),
         ErrorDetails(None, None, Some("get_balance"), None)),
   Event(Some(1000), RPC_CALL_ERROR, Some("buyer"), Some(18082), NoDetails),
   Event(Some(1007), CACHE_POLLUTION_DETECTED, Some("buyer"), None,
         ErrorDetails(None, None, None, Some("stale"))),
   Event(None, CACHE_POLLUTION_DETECTED, Some("vendor"), None, NoDetails),
   Event(Some(1000), RPC_CALL_END, Some("buyer"), Some(18082),
         RpcDetails(Some("get_balance"), Some(120), Some(TRUE))),
   Event(None, ESCROW_INIT, Some("buyer"), None, NoDetails)}

InitErrors ==
  /\ events \in SessionsOver(ErrorUniverse, MaxErrLen)
  /\ events2 = <<>>
  /\ timeline = NoTimeline
  /\ rpc_stats = NoRpcStats
  /\ snapshot_report = NoSnapshotReport
  /\ error_report = NoErrorReport
  /\ comparison = NoComparison
  /\ runs = NoRuns

NextErrors == AnalyzeErrors

SpecErrors == InitErrors /\ [][NextErrors]_vars

----------------------------------------------------------------------------
(* One session under the four analyses *)

MaxSessionLen == 2

MixedUniverse ==
  {Event(Some(1000), RPC_CALL_START, Some("buyer"), Some(18082),
         RpcDetails(Some("get_balance"), None, None)),
   Event(Some(1010), RPC_CALL_END, Some("buyer"), Some(18082),
         RpcDetails(Some("get_balance"), Some(120), Some(TRUE))),
   Event(Some(1130), ERROR_FINAL, Some("vendor"), None,
         ErrorDetails(Some("timeout"), None, None, None)),
   Event(Some(1000), SNAPSHOT_PRE, Some("buyer"), None,
         SnapshotDetails(Some(TRUE), Some(ShortHash))),
   Event(Some(990), SNAPSHOT_POST, Some("buyer"), None,
         SnapshotDetails(Some(FALSE), Some(OtherHash))),
   Event(None, ESCROW_INIT, None, None, NoDetails)}

\* Scenario A of the specification: RPC_CALL_START(get_balance),
\* RPC_CALL_END(get_balance, 120 ms, success), ERROR_FINAL("timeout"); the
\* scenario fixes neither the roles nor the time of the session
ScenarioA ==
  {<<Event(Some(base), RPC_CALL_START, roles[1], Some(18082),
           RpcDetails(Some("get_balance"), None, None)),
     Event(Some(base + 10), RPC_CALL_END, roles[2], Some(18082),
           RpcDetails(Some("get_balance"), Some(120), Some(TRUE))),
     Event(Some(base + 130), ERROR_FINAL, roles[3], None,
           ErrorDetails(Some("timeout"), None, None, None))>> :
     roles \in [1..3 -> {None, Some("buyer"), Some("vendor")}],
     base \in {1000, 86399990}}

Init ==
  /\ events \in SessionsOver(MixedUniverse, MaxSessionLen) \cup ScenarioA
  /\ events2 = <<>>
  /\ timeline = NoTimeline
  /\ rpc_stats = NoRpcStats
  /\ snapshot_report = NoSnapshotReport
  /\ error_report = NoErrorReport
  /\ comparison = NoComparison
  /\ runs = NoRuns

\* the caller runs each analysis on the loaded session, in any order
Next == AnalyzeTimeline \/ AnalyzeRpcCalls \/ AnalyzeSnapshots \/ AnalyzeErrors

Spec == Init /\ [][Next]_vars

----------------------------------------------------------------------------
(* A caller that runs the analyses again and compares two sessions *)

MaxRuns == 2

\* Every analysis is a function of its argument: it builds its lists and
\* dictionaries anew on each call (lines 87, 93, 140, 147, 189) and the module
\* holds no variable of its own, so a later call starts from the session alone.
AnalyzeTimelineAgain ==
  /\ timeline.status # NotRun
  /\ runs.timeline < MaxRuns
  /\ timeline' = AnalyzeTimelineResult(events)
  /\ runs' = [runs EXCEPT !.timeline = @ + 1]
  /\ UNCHANGED <<events, events2, rpc_stats, snapshot_report, error_report, comparison>>

AnalyzeRpcCallsAgain ==
  /\ rpc_stats.status # NotRun
  /\ runs.rpc_calls < MaxRuns
  /\ rpc_stats' = AnalyzeRpcCallsResult(events)
  /\ runs' = [runs EXCEPT !.rpc_calls = @ + 1]
  /\ UNCHANGED <<events, events2, timeline, snapshot_report, error_report, comparison>>

AnalyzeSnapshotsAgain ==
  /\ snapshot_report.status # NotRun
  /\ runs.snapshots < MaxRuns
  /\ snapshot_report' = AnalyzeSnapshotsResult(events)
  /\ runs' = [runs EXCEPT !.snapshots = @ + 1]
  /\ UNCHANGED <<events, events2, timeline, rpc_stats, error_report, comparison>>

AnalyzeErrorsAgain ==
  /\ error_report.status # NotRun
  /\ runs.errors < MaxRuns
  /\ error_report' = AnalyzeErrorsResult(events)
  /\ runs' = [runs EXCEPT !.errors = @ + 1]
  /\ UNCHANGED <<events, events2, timeline, rpc_stats, snapshot_report, comparison>>

\* the second session is empty or one record long
InitRerun ==
  /\ events \in SessionsOver(MixedUniverse, MaxSessionLen) \cup ScenarioA
  /\ events2 \in SessionsOver({Event(Some(1000), SNAPSHOT_PRE, Some("buyer"), None,
                                     SnapshotDetails(Some(TRUE), Some(ShortHash)))}, 1)
  /\ timeline = NoTimeline
  /\ rpc_stats = NoRpcStats
  /\ snapshot_report = NoSnapshotReport
  /\ error_report = NoErrorReport
  /\ comparison = NoComparison
  /\ runs = NoRuns

NextRerun ==
  \/ AnalyzeTimeline \/ AnalyzeRpcCalls \/ AnalyzeSnapshots \/ AnalyzeErrors
  \/ AnalyzeTimelineAgain \/ AnalyzeRpcCallsAgain
  \/ AnalyzeSnapshotsAgain \/ AnalyzeErrorsAgain
  \/ CompareEscrows

SpecRerun == InitRerun /\ [][NextRerun]_vars

----------------------------------------------------------------------------
(* Properties of analyze_snapshots *)

\* The positions in the session of the snapshot events of role r, and the
\* role's own subsequence read off the session directly.
SnapPositions(r) ==
  {i \in 1..Len(events) : IsSnapshot(events[i]) /\ events[i].role = Some(r)}

\* the session position of the role's snapshot number k (0-based)
SnapAt(r, k) ==
  CHOOSE i \in SnapPositions(r) : Cardinality({j \in SnapPositions(r) : j < i}) = k

SnapCount(r) == Cardinality(SnapPositions(r))

\* the anomalies reported for role r at the role's snapshot number k
ReportedAt(r, k) ==
  {n \in 1..Len(snapshot_report.anomalies) :
     /\ snapshot_report.anomalies[n].role = r
     /\ snapshot_report.anomalies[n].index = k}

ReportedKindAt(r, k, kind) ==
  {n \in ReportedAt(r, k) : snapshot_report.anomalies[n].kind = kind}

SnapRoles == {"buyer", "vendor"}

\* C1: for every role and every pair of consecutive snapshots of the role
\* with is_multisig true at k and false at k+1, exactly one anomaly is
\* reported at k+1, whatever the two address hashes are.
C1_ExactlyOneAnomalyOnMultisigLoss ==
  snapshot_report.status # NotRun =>
    \A r \in SnapRoles : \A k \in 0..(SnapCount(r) - 2) :
      (/\ events[SnapAt(r, k)].details.is_multisig = Some(TRUE)
       /\ events[SnapAt(r, k + 1)].details.is_multisig = Some(FALSE))
      => Cardinality(ReportedAt(r, k + 1)) = 1

\* C2: a role whose first snapshot has is_multisig false and whose second
\* has is_multisig true, with the same address hash, gets no anomaly at the
\* second snapshot.
C2_NoAnomalyOnTransitionToMultisig ==
  snapshot_report.status # NotRun =>
    \A r \in SnapRoles :
      (/\ SnapCount(r) >= 2
       /\ events[SnapAt(r, 0)].details.is_multisig = Some(FALSE)
       /\ events[SnapAt(r, 1)].details.is_multisig = Some(TRUE)
       /\ events[SnapAt(r, 0)].details.address_hash # None
       /\ events[SnapAt(r, 0)].details.address_hash
            = events[SnapAt(r, 1)].details.address_hash)
      => ReportedAt(r, 1) = {}

\* C3: an address anomaly is reported at a snapshot exactly when its
\* address hash differs from that of the role's preceding snapshot; equal
\* hashes of any length give none.
C3_AddressAnomalyIffHashDiffers ==
  snapshot_report.status # NotRun =>
    \A r \in SnapRoles : \A k \in 1..(SnapCount(r) - 1) :
      (/\ events[SnapAt(r, k)].details.address_hash # None
       /\ events[SnapAt(r, k - 1)].details.address_hash # None)
      => ((ReportedKindAt(r, k, "ADDRESS CHANGED") # {})
          <=> (events[SnapAt(r, k)].details.address_hash
                 # events[SnapAt(r, k - 1)].details.address_hash))

----------------------------------------------------------------------------
(* Properties of analyze_timeline *)

\* C4: for every non-empty session, the relative offset computed for the
\* first event is exactly 0.
C4_FirstOffsetIsZero ==
  (timeline.status # NotRun /\ events # <<>> /\ events[1].timestamp # None)
  => (Len(timeline.lines) >= 1 /\ timeline.lines[1].relative_ms = 0)

\* a session whose first timestamp is not 0 and whose second event has
\* another timestamp has been rendered
C4_Witness ==
  /\ timeline.status = "ok"
  /\ Len(events) >= 2
  /\ events[1].timestamp = Some(1000)
  /\ timeline.lines[1].relative_ms = 0
  /\ timeline.lines[2].relative_ms = 7

----------------------------------------------------------------------------
(* Properties of analyze_rpc_calls *)

\* the completed calls of a method, read off the session: positions of the
\* RPC_CALL_END events that name the method and carry a duration
EndPositions(m) ==
  {i \in 1..Len(events) :
     /\ events[i].event_type = RPC_CALL_END
     /\ events[i].details.method = Some(m)
     /\ events[i].details.duration_ms # None}

RECURSIVE DurationSum(_)
DurationSum(S) ==
  IF S = {} THEN 0
  ELSE LET i == CHOOSE x \in S : TRUE
       IN events[i].details.duration_ms[1] + DurationSum(S \ {i})

\* C5: no method is reported with zero contributing completed calls: every
\* reported method has count >= 1 and at least one RPC_CALL_END event of its
\* own, so a method seen only in RPC_CALL_START / RPC_CALL_ERROR events is
\* not reported.
C5_NoMethodWithZeroCalls ==
  \A n \in 1..Len(rpc_stats.methods) :
    /\ rpc_stats.methods[n].count >= 1
    /\ EndPositions(rpc_stats.methods[n].method) # {}

\* statistics were reported for a session in which a method occurs only in
\* START / ERROR events
C5_Witness ==
  /\ rpc_stats.status = "ok"
  /\ Len(rpc_stats.methods) >= 1
  /\ \E i \in 1..Len(events) :
       /\ events[i].event_type \in {RPC_CALL_START, RPC_CALL_ERROR}
       /\ events[i].details.method = Some("only_started")

\* C6: the reported average of every method is the arithmetic mean of the
\* contributing duration_ms values (their sum over their number) and lies
\* within the reported [min, max]: n*min <= sum <= n*max; so does the whole
\* number it is printed as.
C6_AverageIsMeanWithinMinMax ==
  \A n \in 1..Len(rpc_stats.methods) :
    LET e == rpc_stats.methods[n]
        S == EndPositions(e.method)
    IN /\ e.avg.den = Cardinality(S)
       /\ e.avg.num = DurationSum(S)
       /\ e.avg.den * e.min <= e.avg.num
       /\ e.avg.num <= e.avg.den * e.max
       /\ e.min <= e.shown_avg /\ e.shown_avg <= e.max
       /\ \E i \in S : events[i].details.duration_ms = Some(e.min)
       /\ \E i \in S : events[i].details.duration_ms = Some(e.max)

\* a method with three calls of different durations whose mean is strictly
\* between min and max has been reported
C6_Witness ==
  \E n \in 1..Len(rpc_stats.methods) :
    /\ rpc_stats.methods[n].count = 3
    /\ rpc_stats.methods[n].min = 0
    /\ rpc_stats.methods[n].max = 120
    /\ rpc_stats.methods[n].avg = [num |-> 125, den |-> 3]

----------------------------------------------------------------------------
(* Properties of compare_escrows *)

\* the (event_type, role) pair the comparison is about
TypeAndRole(e) == <<e.event_type, e.role>>

\* the 0-based indices of the common prefix at which the two sessions differ
\* in (event_type, role), read off the sessions
PrefixDifferences ==
  {i \in 0..(Min2(Len(events), Len(events2)) - 1) :
     TypeAndRole(events[i + 1]) # TypeAndRole(events2[i + 1])}

\* C7: comparing the sessions the other way round negates the difference of
\* every event type, and reports a divergence exactly when this way does, at
\* the same index, with the two conflicting events swapped.
C7_ComparatorSymmetry ==
  comparison.status # NotRun =>
    LET swapped == CompareEscrowsResult(events2, events)
    IN /\ Len(swapped.rows) = Len(comparison.rows)
       /\ \A n \in 1..Len(comparison.rows) :
            /\ swapped.rows[n].event_type = comparison.rows[n].event_type
            /\ swapped.rows[n].diff = 0 - comparison.rows[n].diff
       /\ (swapped.divergence = None) <=> (comparison.divergence = None)
       /\ comparison.divergence # None =>
            /\ swapped.divergence[1].index = comparison.divergence[1].index
            /\ swapped.divergence[1].file1 = comparison.divergence[1].file2
            /\ swapped.divergence[1].file2 = comparison.divergence[1].file1

\* a comparison that found a divergence against an event without a role, with
\* some event type more frequent in the second session
C7_Witness ==
  /\ comparison.divergence # None
  /\ comparison.divergence[1].file1.role = None
  /\ comparison.divergence[1].file2.role # None
  /\ \E n \in 1..Len(comparison.rows) : comparison.rows[n].diff > 0

\* C8: the divergence reported is the smallest index below min(len1, len2)
\* at which (event_type, role) differs, with both conflicting events; every
\* index below it is equal in both sessions; without such an index none is
\* reported.  (The report numbers events from 1: index i is "event #i+1".)
C8_FirstDivergenceIsSmallestDifference ==
  comparison.status # NotRun =>
    /\ PrefixDifferences = {} => comparison.divergence = None
    /\ PrefixDifferences # {} =>
         /\ comparison.divergence # None
         /\ LET d == comparison.divergence[1]
            IN /\ d.index \in PrefixDifferences
               /\ d.event_number = d.index + 1
               /\ \A j \in PrefixDifferences : d.index <= j
               /\ d.file1 = [event_type |-> events[d.index + 1].event_type,
                             role |-> events[d.index + 1].role]
               /\ d.file2 = [event_type |-> events2[d.index + 1].event_type,
                             role |-> events2[d.index + 1].role]

\* Scenario B: equal on indices 0..4, RPC_CALL_END/buyer against
\* RPC_CALL_ERROR/buyer at index 5, reported at index 5
C8_Witness ==
  /\ Len(events) = 6 /\ Len(events2) = 6
  /\ \A i \in 1..5 : TypeAndRole(events[i]) = TypeAndRole(events2[i])
  /\ comparison.divergence # None
  /\ comparison.divergence[1].index = 5
  /\ comparison.divergence[1].file1 = [event_type |-> RPC_CALL_END, role |-> Some("buyer")]
  /\ comparison.divergence[1].file2 = [event_type |-> RPC_CALL_ERROR, role |-> Some("buyer")]

\* C9: when no index of the common prefix differs, no divergence is
\* reported, the length mismatch is reported exactly when the lengths differ
\* and the sessions are called identical exactly when the lengths are equal.
C9_NoDivergenceVerdict ==
  (comparison.status # NotRun /\ PrefixDifferences = {}) =>
    /\ comparison.divergence = None
    /\ comparison.verdict \in {"length_mismatch", "identical"}
    /\ (comparison.verdict = "length_mismatch") <=> (Len(events) # Len(events2))
    /\ (comparison.verdict = "identical") <=> (Len(events) = Len(events2))

\* a session compared with a proper extension of itself
C9_Witness ==
  /\ comparison.verdict = "length_mismatch"
  /\ comparison.divergence = None
  /\ Len(events) = 1 /\ Len(events2) = 2
  /\ comparison.len1 = 1 /\ comparison.len2 = 2

ReplacementDetails ==
  {NoDetails, RpcDetails(Some("transfer"), Some(7), Some(FALSE)),
   SnapshotDetails(Some(TRUE), Some(LongHash))}

\* the sessions obtained from evs by replacing the details, the timestamp,
\* the rpc_port or the trace_id of one event
Replacements(evs) ==
  {[evs EXCEPT ![i] = [@ EXCEPT !.details = d]] :
     i \in 1..Len(evs), d \in ReplacementDetails}
  \cup
  {[evs EXCEPT ![i] = [@ EXCEPT !.timestamp = t]] :
     i \in 1..Len(evs), t \in {None, Some(5)}}
  \cup
  {[evs EXCEPT ![i] = [@ EXCEPT !.rpc_port = q]] :
     i \in 1..Len(evs), q \in {None, Some(1)}}
  \cup
  {[evs EXCEPT ![i] = [@ EXCEPT !.trace_id = t]] :
     i \in 1..Len(evs), t \in {None, Some("t2")}}

\* C10: the result of the comparison (distribution counts, divergence index
\* and events shown, verdict) depends only on the (event_type, role)
\* sequences: replacing the details, timestamp, rpc_port or trace_id of any
\* event of either session leaves it unchanged.
C10_ResultIgnoresPayload ==
  comparison.status # NotRun =>
    /\ \A v \in Replacements(events) : CompareEscrowsResult(v, events2) = comparison
    /\ \A v \in Replacements(events2) : CompareEscrowsResult(events, v) = comparison

\* two sessions that differ only in a details payload compared and called
\* identical
C10_Witness ==
  /\ comparison.verdict = "identical"
  /\ Len(events) = 2
  /\ events # events2
  /\ \E i \in 1..Len(events) : events[i].details # events2[i].details

\* ---- the distribution table of compare_escrows ----

\* positions of the events of type t in a session, counted from the session
PositionsOfType(evs, t) == {i \in 1..Len(evs) : evs[i].event_type = t}

RowsOfType(t) ==
  {n \in 1..Len(comparison.rows) : comparison.rows[n].event_type = t}

\* C11: the distribution table of compare_escrows has exactly one row for
\* every event type seen in either session and no row for any other type;
\* each row holds the number of events of its type in the first session, the
\* number in the second (0 when the type is absent there) and the difference
\* second minus first.
C11_DistributionRows ==
  comparison.status # NotRun =>
    /\ \A n \in 1..Len(comparison.rows) :
         LET row == comparison.rows[n]
         IN /\ PositionsOfType(events, row.event_type)
                 \cup PositionsOfType(events2, row.event_type) # {}
            /\ row.count1 = Cardinality(PositionsOfType(events, row.event_type))
            /\ row.count2 = Cardinality(PositionsOfType(events2, row.event_type))
            /\ row.diff = row.count2 - row.count1
            /\ row.diff_str.number = row.diff
    /\ \A i \in 1..Len(events) : Cardinality(RowsOfType(events[i].event_type)) = 1
    /\ \A i \in 1..Len(events2) : Cardinality(RowsOfType(events2[i].event_type)) = 1

\* a comparison with two rows, one of them for a type that only the second
\* session has
C11_Witness ==
  /\ comparison.status # NotRun
  /\ Len(comparison.rows) = 2
  /\ events # <<>>
  /\ \E n \in 1..Len(comparison.rows) :
       /\ comparison.rows[n].count1 = 0
       /\ comparison.rows[n].count2 >= 1
       /\ comparison.rows[n].diff >= 1

\* ---- which events feed the RPC statistics ----

StartOrError(e) == e.event_type \in {RPC_CALL_START, RPC_CALL_ERROR}

RemoveAt(evs, i) == SubSeq(evs, 1, i - 1) \o SubSeq(evs, i + 1, Len(evs))

InsertAfter(evs, p, e) == SubSeq(evs, 1, p) \o <<e>> \o SubSeq(evs, p + 1, Len(evs))

\* the sessions one RPC_CALL_START / RPC_CALL_ERROR event away from the
\* analysed one
StartErrorVariants ==
  {RemoveAt(events, i) : i \in {j \in 1..Len(events) : StartOrError(events[j])}}
  \cup
  {InsertAfter(events, p, e) :
     p \in 0..Len(events), e \in {u \in RpcUniverse : StartOrError(u)}}

\* C12: only RPC_CALL_END events contribute to the RPC statistics: the
\* session with one RPC_CALL_START or RPC_CALL_ERROR event removed or
\* added (any method, with or without a duration) gets the same methods
\* with the same count, successes, failures, average, min and max, and the
\* call ends the same way.
C12_OnlyEndEventsContribute ==
  rpc_stats.status # NotRun =>
    \A variant \in StartErrorVariants :
      /\ AnalyzeRpcCallsResult(variant).methods = rpc_stats.methods
      /\ AnalyzeRpcCallsResult(variant).status = rpc_stats.status

\* statistics were reported for a session holding an END event beside a
\* START event and an ERROR event that carries a method and a duration
C12_Witness ==
  /\ rpc_stats.status = "ok"
  /\ Len(rpc_stats.methods) = 1
  /\ \E i \in 1..Len(events) : events[i].event_type = RPC_CALL_START
  /\ \E i \in 1..Len(events) :
       /\ events[i].event_type = RPC_CALL_ERROR
       /\ events[i].details.duration_ms # None

\* ---- what the RPC statistics carry per method and per role ----

SuccessPositions(m) ==
  {i \in EndPositions(m) : events[i].details.success = Some(TRUE)}

RoleEndPositions(m, r) == {i \in EndPositions(m) : events[i].role = Some(r)}

MethodFields ==
  {"method", "count", "successes", "failures", "avg", "shown_avg", "min", "max", "roles"}

ErrorTypes == {ERROR_FINAL, RPC_CALL_ERROR, CACHE_POLLUTION_DETECTED}

ErrorPositions == {i \in 1..Len(events) : events[i].event_type \in ErrorTypes}

\* the error positions without the key 'timestamp', where line 196 raises
Unstamped == {i \in ErrorPositions : events[i].timestamp = None}

\* the error positions reached before the first unstamped one
Recorded == {i \in ErrorPositions : \A u \in Unstamped : i < u}

\* the n-th smallest element of a set of positions
NthOf(S, n) == CHOOSE i \in S : Cardinality({j \in S : j <= i}) = n

\* the time of day of a timestamp, spelled out field by field
TimeOfDay(ts) ==
  [hour |-> (ts \div 3600000) % 24, minute |-> (ts \div 60000) % 60,
   second |-> (ts \div 1000) % 60, millis |-> ts % 1000]

Optional(opt, default) == IF opt = None THEN default ELSE opt[1]

\* C14: analyze_errors outputs exactly one record for each event whose type
\* is ERROR_FINAL, RPC_CALL_ERROR or CACHE_POLLUTION_DETECTED and none for
\* any other event, in session order; each record carries its event's
\* timestamp (as a time of day), its role ('unknown' when absent) and the
\* detail of its type: error and context, or method, or reason.  The call
\* fails only on an error event without 'timestamp', after the records of
\* the error events before it.
C14_OneRecordPerErrorEvent ==
  error_report.status # NotRun =>
    /\ Len(error_report.records) = Cardinality(Recorded)
    /\ error_report.status = IF Unstamped = {} THEN "ok" ELSE "KeyError"
    /\ \A n \in 1..Len(error_report.records) :
         LET rec == error_report.records[n]
             ev == events[NthOf(Recorded, n)]
         IN /\ rec.event_type = ev.event_type
            /\ rec.time = TimeOfDay(ev.timestamp[1])
            /\ rec.role = Optional(ev.role, "unknown")
            /\ rec.detail.error =
                 IF ev.event_type = ERROR_FINAL
                 THEN Some(Optional(ev.details.error, "unknown")) ELSE None
            /\ rec.detail.context =
                 IF ev.event_type = ERROR_FINAL
                 THEN Some(Optional(ev.details.context, "{}")) ELSE None
            /\ rec.detail.method =
                 IF ev.event_type = RPC_CALL_ERROR
                 THEN Some(Optional(ev.details.method, "unknown")) ELSE None
            /\ rec.detail.reason =
                 IF ev.event_type = CACHE_POLLUTION_DETECTED
                 THEN Some(Optional(ev.details.reason, "unknown")) ELSE None

\* a session of one event of each error type, the second one after an event
\* that is no error, was reported completely
C14_Witness ==
  /\ error_report.status = "ok"
  /\ Len(error_report.records) = 2
  /\ Len(events) = 3
  /\ error_report.records[1].event_type = ERROR_FINAL
  /\ error_report.records[2].event_type = CACHE_POLLUTION_DETECTED
  /\ events[2].event_type = RPC_CALL_END

\* ---- Scenario A and the empty session ----

\* the analysed session is the three events of Scenario A
IsScenarioA ==
  /\ Len(events) = 3
  /\ events[1].event_type = RPC_CALL_START
  /\ events[1].details.method = Some("get_balance")
  /\ events[2].event_type = RPC_CALL_END
  /\ events[2].details.method = Some("get_balance")
  /\ events[2].details.duration_ms = Some(120)
  /\ events[2].details.success = Some(TRUE)
  /\ events[3].event_type = ERROR_FINAL
  /\ events[3].details.error = Some("timeout")
  /\ \A i \in 1..3 : events[i].timestamp # None

\* C15: for the three events of Scenario A the RPC statistics hold exactly
\* one entry, get_balance with count 1 and average 120, and the error
\* extraction holds exactly one record, the ERROR_FINAL with error "timeout".
C15_ScenarioA ==
  IsScenarioA =>
    /\ rpc_stats.status # NotRun =>
         /\ Len(rpc_stats.methods) = 1
         /\ rpc_stats.methods[1].method = "get_balance"
         /\ rpc_stats.methods[1].count = 1
         /\ rpc_stats.methods[1].avg = [num |-> 120, den |-> 1]
         /\ rpc_stats.methods[1].shown_avg = 120
         /\ rpc_stats.notice = ""
    /\ error_report.status # NotRun =>
         /\ error_report.status = "ok"
         /\ Len(error_report.records) = 1
         /\ error_report.records[1].event_type = ERROR_FINAL
         /\ error_report.records[1].detail.error = Some("timeout")
         /\ error_report.records[1].role = Optional(events[3].role, "unknown")
         /\ error_report.notice = ""

\* both analyses have run on a Scenario A session and completed
C15_Witness ==
  /\ IsScenarioA
  /\ rpc_stats.status = "ok"
  /\ error_report.status = "ok"
  /\ Len(rpc_stats.methods) = 1
  /\ Len(error_report.records) = 1

\* C17: on a session with zero events the RPC statistics, the snapshot
\* lineage and the error extraction each complete without an error and
\* yield an empty result: no method, no lineage and no anomaly, no error
\* record.  None of the three rejects the empty session.
C17_EmptySessionYieldsEmptyResults ==
  events = <<>> =>
    /\ rpc_stats.status # NotRun =>
         rpc_stats.status = "ok" /\ rpc_stats.methods = <<>>
    /\ snapshot_report.status # NotRun =>
         /\ snapshot_report.status = "ok"
         /\ snapshot_report.lineage = <<>>
         /\ snapshot_report.anomalies = <<>>
    /\ error_report.status # NotRun =>
         error_report.status = "ok" /\ error_report.records = <<>>

\* the three analyses have run on the empty session
C17_Witness ==
  /\ events = <<>>
  /\ rpc_stats.status = "ok"
  /\ snapshot_report.status = "ok"
  /\ error_report.status = "ok"

\* ---- empty, malformed and unsorted sessions ----

\* C16: analyze_timeline applied to a session with zero events fails with
\* EmptySessionError; it does not return normally with an empty or
\* placeholder result.
C16_EmptySessionRejected ==
  (timeline.status # NotRun /\ events = <<>>) =>
    timeline.status = "EmptySessionError"

\* the record carries a timestamp under neither of its names
LacksTimestamp(e) == e.timestamp = None /\ e.timestamp_ms = None

\* C18: a record that lacks the timestamp field makes processing fail with
\* MalformedEventError and with no other kind of failure, and a session whose
\* records all carry a timestamp and an event_type is accepted.
C18_MalformedRecordRaisesMalformedEventError ==
  (timeline.status # NotRun /\ events # <<>>) =>
    timeline.status =
      IF \E i \in 1..Len(events) : LacksTimestamp(events[i])
      THEN "MalformedEventError" ELSE "ok"

\* the RPC_CALL_END events of the session
AllEndPositions == {i \in 1..Len(events) : events[i].event_type = RPC_CALL_END}

RECURSIVE CountSum(_)
CountSum(entries) ==
  IF entries = <<>> THEN 0 ELSE Head(entries).count + CountSum(Tail(entries))

\* C19: no RPC_CALL_END event is skipped without a report: when
\* analyze_rpc_calls returns normally every RPC_CALL_END event of the
\* session, also one without method or duration_ms or with an empty method,
\* is counted in the statistics.
C19_NoEndEventSilentlyDropped ==
  rpc_stats.status = "ok" =>
    CountSum(rpc_stats.methods) = Cardinality(AllEndPositions)

\* C20: when some event has a timestamp smaller than the first event's the
\* timeline still holds one line for every event, and a
\* NonMonotonicTimestampWarning is surfaced for the session.
C20_NonMonotonicWarningSurfaced ==
  (/\ timeline.status = "ok"
   /\ \E n \in 1..Len(timeline.lines) : timeline.lines[n].relative_ms < 0) =>
    /\ Len(timeline.lines) = Len(events)
    /\ "NonMonotonicTimestampWarning" \in timeline.warnings

\* ---- offsets of a sorted session ----

\* every event carries a timestamp and the timestamps never decrease
SortedByTimestamp ==
  /\ \A i \in 1..Len(events) : events[i].timestamp # None
  /\ \A i \in 1..Len(events) : \A j \in i..Len(events) :
       events[i].timestamp[1] <= events[j].timestamp[1]

\* C21: for a session sorted non-decreasing by timestamp the timeline holds
\* one line per event, every relative offset is non-negative and the offsets
\* never decrease along the output.
C21_SortedSessionOffsets ==
  (timeline.status # NotRun /\ SortedByTimestamp) =>
    /\ timeline.status = "ok"
    /\ Len(timeline.lines) = Len(events)
    /\ \A n \in 1..Len(timeline.lines) : timeline.lines[n].relative_ms >= 0
    /\ \A n \in 1..Len(timeline.lines) : \A m \in n..Len(timeline.lines) :
         timeline.lines[n].relative_ms <= timeline.lines[m].relative_ms

\* the timeline of a session whose timestamps strictly increase over three
\* events has been printed
C21_Witness ==
  /\ timeline.status = "ok"
  /\ SortedByTimestamp
  /\ Len(events) = 3
  /\ timeline.lines[1].relative_ms = 0
  /\ timeline.lines[2].relative_ms = 7
  /\ timeline.lines[3].relative_ms = 14

\* ---- the lineage of analyze_snapshots ----

AllSnapPositions == {i \in 1..Len(events) : IsSnapshot(events[i])}

\* the lineage entries that hold the snapshot event at session position i:
\* those of its role, at the place of its rank among the role's snapshots
LineagesHolding(i) ==
  {p \in 1..Len(snapshot_report.lineage) :
     LET entry == snapshot_report.lineage[p]
         rank == Cardinality({j \in AllSnapPositions :
                                j <= i /\ events[j].role = events[i].role})
     IN /\ events[i].role = Some(entry.role)
        /\ rank <= Len(entry.snaps)
        /\ entry.snaps[rank] = events[i]}

\* every lineage is its role's snapshot events in session order
LineagesInSessionOrder ==
  \A p \in 1..Len(snapshot_report.lineage) :
    LET entry == snapshot_report.lineage[p]
    IN /\ Len(entry.snaps) = SnapCount(entry.role)
       /\ \A k \in 1..Len(entry.snaps) :
            entry.snaps[k] = events[SnapAt(entry.role, k - 1)]

\* C22: each role's lineage is exactly the subsequence of the session's
\* snapshot events that have that role, in session order, and every
\* snapshot event of the session appears in exactly one role's lineage.
C22_LineageIsRoleSubsequence ==
  snapshot_report.status # NotRun =>
    /\ LineagesInSessionOrder
    /\ \A i \in AllSnapPositions : Cardinality(LineagesHolding(i)) = 1

\* C23: the first snapshot of a role is never reported as anomalous,
\* whatever its is_multisig and address_hash are and whatever snapshots of
\* other roles come before it: no anomaly carries index 0, and every
\* anomaly points at a later snapshot that the role has.
C23_FirstSnapshotNeverAnomalous ==
  \A n \in 1..Len(snapshot_report.anomalies) :
    /\ snapshot_report.anomalies[n].index >= 1
    /\ snapshot_report.anomalies[n].index < SnapCount(snapshot_report.anomalies[n].role)

\* anomalies were reported for a role whose first snapshot, not a multisig
\* one and without an address hash, comes after a snapshot of another role
C23_Witness ==
  /\ snapshot_report.status = "ok"
  /\ snapshot_report.anomalies # <<>>
  /\ Len(events) = 3
  /\ IsSnapshot(events[1]) /\ events[1].role = Some("vendor")
  /\ IsSnapshot(events[2]) /\ events[2].role = Some("buyer")
  /\ events[2].details.is_multisig = Some(FALSE)
  /\ events[2].details.address_hash = None
  /\ IsSnapshot(events[3]) /\ events[3].role = Some("buyer")

\* ---- running an analysis again, in any order, on an input left alone ----

C26_InputNeverMutated ==
  [][events' = events /\ events2' = events2]_vars

\* the four analyses and the comparison have all run, the analyses twice,
\* on a session with an error event that has no role
C26_Witness ==
  /\ runs.timeline = 2 /\ runs.rpc_calls = 2
  /\ runs.snapshots = 2 /\ runs.errors = 2
  /\ runs.compare = 1
  /\ events2 # <<>>
  /\ \E i \in 1..Len(events) :
       events[i].event_type = ERROR_FINAL /\ events[i].role = None

\* ---- anomalies of a role and the events of the others ----

AnomaliesOf(report, r) ==
  LET OfRole(a) == a.role = r IN SelectSeq(report.anomalies, OfRole)

\* the sessions that differ from the analysed one by one event that is not
\* of role r: one such event removed, or one inserted anywhere
OtherRoleVariants(r) ==
  {RemoveAt(events, i) : i \in {j \in 1..Len(events) : events[j].role # Some(r)}}
  \cup
  {InsertAfter(events, p, e) :
     p \in 0..Len(events), e \in {u \in SnapshotUniverse : u.role # Some(r)}}

\* C27: the anomalies reported for a role depend only on the role's own
\* snapshots: removing or inserting an event that is not of that role,
\* snapshot or not, anywhere in the session leaves the role's anomalies as
\* they are, at the same indices.
C27_AnomaliesDependOnOwnRoleOnly ==
  snapshot_report.status # NotRun =>
    \A r \in SnapRoles : \A variant \in OtherRoleVariants(r) :
      AnomaliesOf(AnalyzeSnapshotsResult(variant), r) = AnomaliesOf(snapshot_report, r)

\* ---- events without a role ----

\* C28: snapshot lineage and RPC statistics complete without raising when
\* events carry no role: the snapshot analysis ends normally with a lineage
\* whenever the session has a snapshot, and the RPC statistics end normally
\* with a role breakdown under every method.
C28_RoleIsOptional ==
  /\ snapshot_report.status # NotRun =>
       /\ snapshot_report.status = "ok"
       /\ AllSnapPositions # {} => snapshot_report.lineage # <<>>
  /\ rpc_stats.status # NotRun =>
       /\ rpc_stats.status = "ok"
       /\ \A n \in 1..Len(rpc_stats.methods) : rpc_stats.methods[n].roles # <<>>

\* ---- counts of the RPC statistics ----

\* the RPC_CALL_END events whose details name the method m and carry a
\* duration_ms
NamedWithDuration(m) ==
  {i \in AllEndPositions :
     /\ events[i].details.method = Some(m)
     /\ events[i].details.duration_ms # None}

\* C29: the count reported for a method is the number of RPC_CALL_END
\* events of the session whose details name that method and carry a
\* duration_ms, each counted once; an event with duration_ms = 0 counts like
\* any other (the reported min is then 0).
C29_CountIsNumberOfEndEvents ==
  \A n \in 1..Len(rpc_stats.methods) :
    LET e == rpc_stats.methods[n]
    IN /\ e.count = Cardinality(NamedWithDuration(e.method))
       /\ (\E i \in NamedWithDuration(e.method) : events[i].details.duration_ms = Some(0))
            => e.min = 0
       /\ \A m \in 1..Len(rpc_stats.methods) :
            rpc_stats.methods[m].method = e.method => m = n

\* get_balance was reported with three calls, one of them of 0 ms
C29_Witness ==
  /\ rpc_stats.status = "ok"
  /\ Len(rpc_stats.methods) = 1
  /\ rpc_stats.methods[1].count = 3
  /\ rpc_stats.methods[1].min = 0
  /\ rpc_stats.methods[1].max = 120

RECURSIVE RoleCountSum(_)
RoleCountSum(rows) ==
  IF rows = <<>> THEN 0 ELSE Head(rows).count + RoleCountSum(Tail(rows))

\* C30: for every reported method success count + failure count = count,
\* with the END events whose success is absent or false as the failures;
\* every role listed under the method has at least one call; and the
\* per-role call counts sum to the method's count.
C30_CountsAddUp ==
  \A n \in 1..Len(rpc_stats.methods) :
    LET e == rpc_stats.methods[n]
    IN /\ e.successes + e.failures = e.count
       /\ e.failures = Cardinality({i \in NamedWithDuration(e.method) :
                                      events[i].details.success \in {None, Some(FALSE)}})
       /\ \A p \in 1..Len(e.roles) : e.roles[p].count >= 1
       /\ RoleCountSum(e.roles) = e.count

====
